---- MODULE Spec2Model ----
(***************************************************************************)
(* slurm_query: the query pipeline of src/main.rs (query, squeue_json,     *)
(* index, AppError) and the text codecs of src/ansi.rs and src/escape.rs.  *)
(*                                                                         *)
(* Characters and bytes are their code points / byte values.  An HTML      *)
(* string is the sequence of its tags and text runs, in the order the code *)
(* appends them.                                                           *)
(***************************************************************************)
EXTENDS Integers, Sequences, FiniteSets, TLC

(* ------------------------------ bounds -------------------------------- *)
\* concurrently handled requests
NumReqs == 2
\* names TempDir::new can draw
NumDirs == 2
\* longest string given to strip_ansi
MaxAnsiLen == 4
\* longest byte string given to escape_query
MaxQueryLen == 3
\* most batches in one result stream
MaxBatches == 2
\* most columns in a batch
MaxCols == 1
\* most rows in a batch
MaxRows == 1

VARIABLES
    \* ---- request pipeline (src/main.rs) ----
    pc,         \* per request: the stage it is about to run / suspended in
    prql,       \* per request: Params.prql
    fs,         \* the temporary-file area: per directory name, what is there
    json_dir,   \* per request: the TempDir it holds (0: none)
    children,   \* per request: has its squeue child been spawned
    sessions,   \* the engine sessions alive in the process
    conn,       \* per request: the Connection it holds (0: none)
    trace,      \* per request: the stages run so far, with their outcome
    err,        \* per request: the anyhow::Error that reached the boundary
    out,        \* per request: what index() returned
    \* ---- strip_ansi (src/ansi.rs) ----
    ansi_pc, ansi_in, ansi_once, ansi_twice,
    \* ---- escape_query (src/escape.rs) ----
    esc_pc, esc_in, esc_out, esc_dec,
    \* ---- the rendering loop of query() ----
    render_pc, batches, next_batch, header_printed, table_html

pipeVars == <<pc, prql, fs, json_dir, children, sessions, conn, trace, err, out>>
ansiVars == <<ansi_pc, ansi_in, ansi_once, ansi_twice>>
escVars == <<esc_pc, esc_in, esc_out, esc_dec>>
renderVars == <<render_pc, batches, next_batch, header_printed, table_html>>
vars == <<pipeVars, ansiVars, escVars, renderVars>>

(* ------------------------------ helpers ------------------------------- *)
SeqsUpTo(S, n) == UNION {[1..k -> S] : k \in 0..n}

Range(s) == {s[i] : i \in 1..Len(s)}

RECURSIVE Concat(_)
Concat(ss) == IF ss = <<>> THEN <<>> ELSE Head(ss) \o Concat(Tail(ss))

(* ============================ src/ansi.rs ============================== *)
ESC == 27
LBracket == 91
CsiFinalLo == 64
CsiFinalHi == 127

\* A plausible slip: the character after ESC is kept when it is not '['.
AnsiStepKeepsEscaped(state, o, b) ==
    CASE state = "Normal" ->
            IF b = ESC THEN [state |-> "Escape", out |-> o]
            ELSE [state |-> "Normal", out |-> Append(o, b)]
      [] state = "Escape" ->
            IF b = LBracket THEN [state |-> "Csi", out |-> o]
            ELSE [state |-> "Normal", out |-> Append(o, b)]
      [] state = "Csi" ->
            IF b >= CsiFinalLo /\ b <= CsiFinalHi
            THEN [state |-> "Normal", out |-> o]
            ELSE [state |-> "Csi", out |-> o]

\* One iteration of `for b in s.chars()`: the match on the scanner state.
AnsiStep(state, o, b) ==
    CASE state = "Normal" ->
            IF b = ESC THEN [state |-> "Escape", out |-> o]
            ELSE [state |-> "Normal", out |-> Append(o, b)]
      [] state = "Escape" ->
            IF b = LBracket THEN [state |-> "Csi", out |-> o]
            ELSE [state |-> "Normal", out |-> o]
      [] state = "Csi" ->
            IF b >= CsiFinalLo /\ b <= CsiFinalHi
            THEN [state |-> "Normal", out |-> o]
            ELSE [state |-> "Csi", out |-> o]

RECURSIVE AnsiScan(_, _, _)
AnsiScan(s, state, o) ==
    IF s = <<>> THEN o
    ELSE LET n == AnsiStep(state, o, Head(s))
         IN AnsiScan(Tail(s), n.state, n.out)

strip_ansi(s) == AnsiScan(s, "Normal", <<>>)

\* ESC, '[', '3', 'm', and one character above 0x7F
AnsiChars == {ESC, LBracket, 51, 109, 233}

AnsiInit ==
    /\ ansi_pc = "input"
    /\ ansi_in \in SeqsUpTo(AnsiChars, MaxAnsiLen)
    /\ ansi_once = <<>>
    /\ ansi_twice = <<>>

AnsiRest ==
    /\ ansi_pc = "off"
    /\ ansi_in = <<>>
    /\ ansi_once = <<>>
    /\ ansi_twice = <<>>

StripOnce ==
    /\ ansi_pc = "input"
    /\ ansi_once' = strip_ansi(ansi_in)
    /\ ansi_pc' = "once"
    /\ UNCHANGED <<ansi_in, ansi_twice>>
    /\ UNCHANGED <<pipeVars, escVars, renderVars>>

StripTwice ==
    /\ ansi_pc = "once"
    /\ ansi_twice' = strip_ansi(ansi_once)
    /\ ansi_pc' = "twice"
    /\ UNCHANGED <<ansi_in, ansi_once>>
    /\ UNCHANGED <<pipeVars, escVars, renderVars>>

(* =========================== src/escape.rs ============================= *)
\* A plausible slip: '%' itself is let through.
PassesThroughWithPercent(c) ==
    \/ c \in 97..122
    \/ c \in 65..90
    \/ c \in 48..57
    \/ c \in {45, 46, 32, 126, 37}

\* The first arm of the match in escape_query: bytes pushed as they are.
PassesThrough(c) ==
    \/ c \in 97..122
    \/ c \in 65..90
    \/ c \in 48..57
    \/ c \in {45, 46, 32, 126}

\* {:X}: one uppercase hexadecimal digit, as its ASCII byte
UpperHex(n) == IF n < 10 THEN 48 + n ELSE 55 + n

\* format!("%{:02X}", c)
PercentByte(c) == <<37, UpperHex(c \div 16), UpperHex(c % 16)>>

RECURSIVE escape_query(_)
escape_query(s) ==
    IF s = <<>> THEN <<>>
    ELSE (IF PassesThrough(Head(s)) THEN <<Head(s)>> ELSE PercentByte(Head(s)))
         \o escape_query(Tail(s))

\* Standard percent-decoding (RFC 3986, 2.1), the inverse the links rely on.
IsHex(c) == c \in 48..57 \/ c \in 65..70 \/ c \in 97..102

HexVal(c) == IF c \in 48..57 THEN c - 48
             ELSE IF c \in 65..70 THEN c - 55 ELSE c - 87

RECURSIVE PercentDecode(_)
PercentDecode(s) ==
    IF s = <<>> THEN <<>>
    ELSE IF /\ Head(s) = 37
            /\ Len(s) >= 3
            /\ IsHex(s[2])
            /\ IsHex(s[3])
         THEN <<16 * HexVal(s[2]) + HexVal(s[3])>> \o PercentDecode(SubSeq(s, 4, Len(s)))
         ELSE <<Head(s)>> \o PercentDecode(Tail(s))

\* ' ', '#', '%', '&', '+', '0', '=', 'A', '~', and the two bytes of U+00E9
QueryBytes == {32, 35, 37, 38, 43, 48, 61, 65, 126, 195, 169}

EscInit ==
    /\ esc_pc = "input"
    /\ esc_in \in SeqsUpTo(QueryBytes, MaxQueryLen)
    /\ esc_out = <<>>
    /\ esc_dec = <<>>

EscRest ==
    /\ esc_pc = "off"
    /\ esc_in = <<>>
    /\ esc_out = <<>>
    /\ esc_dec = <<>>

Encode ==
    /\ esc_pc = "input"
    /\ esc_out' = escape_query(esc_in)
    /\ esc_pc' = "encoded"
    /\ UNCHANGED <<esc_in, esc_dec>>
    /\ UNCHANGED <<pipeVars, ansiVars, renderVars>>

Decode ==
    /\ esc_pc = "encoded"
    /\ esc_dec' = PercentDecode(esc_out)
    /\ esc_pc' = "decoded"
    /\ UNCHANGED <<esc_in, esc_out>>
    /\ UNCHANGED <<pipeVars, ansiVars, renderVars>>

(* ====================== src/escape.rs: escape_html ===================== *)
\* One arm of the match in escape_html, for one character.
EscapeHtmlChar(c) ==
    CASE c = 38 -> <<38, 97, 109, 112, 59>>
      [] c = 60 -> <<38, 108, 116, 59>>
      [] c = 62 -> <<38, 103, 116, 59>>
      [] c = 34 -> <<38, 113, 117, 111, 116, 59>>
      [] c = 39 -> <<38, 35, 51, 57, 59>>
      [] OTHER -> <<c>>

escape_html(s) == Concat([i \in 1..Len(s) |-> EscapeHtmlChar(s[i])])

(* ================= src/main.rs: the rendering of query() =============== *)
Open(t) == [kind |-> "open", tag |-> t, text |-> <<>>]
Close(t) == [kind |-> "close", tag |-> t, text |-> <<>>]
Text(s) == [kind |-> "text", tag |-> "", text |-> s]

\* let mut table_html = "<table id=\"results\">".to_string();
TableOpen == <<Open("table")>>

\* table_html += "</tbody></table>";
TableClose == <<Close("tbody"), Close("table")>>

\* value_string(col, row): the text of one cell.  The streams of the model
\* hold one text per batch.
value_string(batch, col, row) == batch.fill

\* The `if !header_printed` block for one batch.
HeaderHtml(batch) ==
    <<Open("thead"), Open("tr")>>
    \o Concat([c \in 1..Len(batch.names) |->
                 <<Open("th"), Text(escape_html(batch.names[c])), Close("th")>>])
    \o <<Close("tr"), Close("thead"), Open("tbody")>>

\* for row in 0..batch.len()
RowsHtml(batch) ==
    Concat([row \in 1..batch.len |->
              <<Open("tr")>>
              \o Concat([c \in 1..Len(batch.names) |->
                          <<Open("td"),
                            Text(escape_html(value_string(batch, c, row))),
                            Close("td")>>])
              \o <<Close("tr")>>])

\* A plausible slip: the flag is never set, so it keeps its value.
HeaderPrintedNeverSet(hp) == hp

\* header_printed after one pass of the loop body
HeaderPrintedAfter(hp) == TRUE

\* What one pass of `while let Some(batch) = stmt.step()` appends.
BatchHtml(hp, batch) ==
    (IF ~hp THEN HeaderHtml(batch) ELSE <<>>) \o RowsHtml(batch)

RECURSIVE RenderLoop(_, _, _)
RenderLoop(bs, hp, html) ==
    IF bs = <<>> THEN html
    ELSE RenderLoop(Tail(bs), HeaderPrintedAfter(hp), html \o BatchHtml(hp, Head(bs)))

\* table_html as query() returns it for the result stream bs
RenderTable(bs) == RenderLoop(bs, FALSE, TableOpen) \o TableClose

\* 'a' and '<' as column names; "1" and "&" as cell texts
ColNames == {<<97>>, <<60>>}
CellTexts == {<<49>>, <<38>>}

Batches ==
    {[names |-> n, len |-> l, fill |-> f] :
        n \in (SeqsUpTo(ColNames, MaxCols) \ {<<>>}), l \in 0..MaxRows, f \in CellTexts \cup {<<>>}}

\* A batch without rows has no cell text.
ResultBatches == {b \in Batches : (b.len = 0) <=> (b.fill = <<>>)}

RenderInit ==
    /\ render_pc = "start"
    /\ batches \in SeqsUpTo(ResultBatches, MaxBatches)
    /\ next_batch = 1
    /\ header_printed = FALSE
    /\ table_html = <<>>

RenderRest ==
    /\ render_pc = "off"
    /\ batches = <<>>
    /\ next_batch = 1
    /\ header_printed = FALSE
    /\ table_html = <<>>

\* lines 209-211
RenderBegin ==
    /\ render_pc = "start"
    /\ table_html' = TableOpen
    /\ header_printed' = FALSE
    /\ render_pc' = "loop"
    /\ UNCHANGED <<batches, next_batch>>
    /\ UNCHANGED <<pipeVars, ansiVars, escVars>>

\* stmt.step() returns Some(batch): one pass of the loop body
StepBatch ==
    /\ render_pc = "loop"
    /\ next_batch <= Len(batches)
    /\ table_html' = table_html \o BatchHtml(header_printed, batches[next_batch])
    /\ header_printed' = HeaderPrintedAfter(header_printed)
    /\ next_batch' = next_batch + 1
    /\ UNCHANGED <<render_pc, batches>>
    /\ UNCHANGED <<pipeVars, ansiVars, escVars>>

\* stmt.step() returns None: line 235
RenderEnd ==
    /\ render_pc = "loop"
    /\ next_batch > Len(batches)
    /\ table_html' = table_html \o TableClose
    /\ render_pc' = "done"
    /\ UNCHANGED <<batches, next_batch, header_printed>>
    /\ UNCHANGED <<pipeVars, ansiVars, escVars>>

(* ================= src/main.rs: index, query, squeue_json ============== *)
Reqs == 1..NumReqs
DirNames == 1..NumDirs
SessionIds == 1..NumReqs

NoDir == [exists |-> FALSE, owner |-> 0, has_file |-> FALSE, writer |-> 0, data |-> 0]

NoSession ==
    [open |-> FALSE, owner |-> 0, users |-> {}, loaded |-> FALSE, queue |-> 0,
     fs_disabled |-> FALSE, locked |-> FALSE, prepared |-> FALSE, executed |-> FALSE]

NoError == [origin |-> "none", message |-> "none", context |-> "none"]

NoOutput == [kind |-> "none", html |-> <<>>]

\* A plausible slip: the session is hardened before the snapshot is loaded.
StageAfterHardenFirst(stage) ==
    CASE stage = "compile" -> "spawn"
      [] stage = "spawn" -> "tempdir"
      [] stage = "tempdir" -> "create_file"
      [] stage = "create_file" -> "copy"
      [] stage = "copy" -> "wait"
      [] stage = "wait" -> "exit_status"
      [] stage = "exit_status" -> "open"
      [] stage = "open" -> "disable_fs"
      [] stage = "disable_fs" -> "lock_cfg"
      [] stage = "lock_cfg" -> "load"
      [] stage = "load" -> "prepare"
      [] stage = "prepare" -> "execute"
      [] stage = "execute" -> "render"
      [] stage = "render" -> "done"

\* The statements of query() and squeue_json() in program order: the stage
\* that runs once `stage` has returned Ok.
StageAfter(stage) ==
    CASE stage = "compile" -> "spawn"
      [] stage = "spawn" -> "tempdir"
      [] stage = "tempdir" -> "create_file"
      [] stage = "create_file" -> "copy"
      [] stage = "copy" -> "wait"
      [] stage = "wait" -> "exit_status"
      [] stage = "exit_status" -> "open"
      [] stage = "open" -> "load"
      [] stage = "load" -> "disable_fs"
      [] stage = "disable_fs" -> "lock_cfg"
      [] stage = "lock_cfg" -> "prepare"
      [] stage = "prepare" -> "execute"
      [] stage = "execute" -> "render"
      [] stage = "render" -> "done"

\* A plausible slip: the exit status of the child is not looked at.
OnErrorIgnoresStatus(stage) ==
    IF stage = "exit_status" THEN "open" ELSE "failed"

\* Where control goes when `stage` returns Err: `?` and bail! leave query().
OnError(stage) == "failed"

\* A plausible slip: the with_context of the load is left out.
ErrorOfWithoutContext(stage) ==
    CASE stage = "compile" ->
            [origin |-> "prqlc", message |-> "stripped diagnostic", context |-> "none"]
      [] stage \in {"spawn", "tempdir", "create_file", "copy", "wait"} ->
            [origin |-> "io", message |-> "os error", context |-> "none"]
      [] stage = "exit_status" ->
            [origin |-> "anyhow", message |-> "command failed", context |-> "none"]
      [] OTHER ->
            [origin |-> "duckdb", message |-> "engine error", context |-> "none"]

\* The anyhow::Error the failing stage hands to the boundary: the library
\* error it comes from, the message the code gives it, the context the code
\* wraps it in.
ErrorOf(stage) ==
    CASE stage = "compile" ->
            [origin |-> "prqlc", message |-> "stripped diagnostic", context |-> "none"]
      [] stage \in {"spawn", "tempdir", "create_file", "copy", "wait"} ->
            [origin |-> "io", message |-> "os error", context |-> "none"]
      [] stage = "exit_status" ->
            [origin |-> "anyhow", message |-> "command failed", context |-> "none"]
      [] stage = "load" ->
            [origin |-> "duckdb", message |-> "engine error", context |-> "Reading JSON"]
      [] stage \in {"open", "disable_fs", "lock_cfg", "prepare", "execute"} ->
            [origin |-> "duckdb", message |-> "engine error", context |-> "none"]

\* impl IntoResponse for AppError / Ok(Html(..)) of index()
ErrorResponse(e) == [kind |-> "error", html |-> <<>>]

\* A plausible slip: the directory is kept (TempDir::into_path, mem::forget).
DropTempDirKeeps(f, d) == f

\* Drop of a TempDir: the directory and its contents are removed.
DropTempDir(f, d) == IF d = 0 THEN f ELSE [f EXCEPT ![d] = NoDir]

\* Drop of a Connection: the in-memory session is closed.
DropConnection(ss, c) == IF c = 0 THEN ss ELSE [ss EXCEPT ![c] = NoSession]

\* A plausible slip: one fixed directory for every request.
FreshDirsShared(f) == DirNames

\* TempDir::new draws a name and retries while the name exists.
FreshDirs(f) == {d \in DirNames : ~f[d].exists}

\* The places where a request is suspended and its future can be dropped.
AwaitPoints == {"create_file", "copy", "wait"}

\* The result streams the engine hands to the pipeline: no batch, or one
\* batch of one row and one column.
PipeStreams == {<<>>, <<[names |-> <<<<97>>>>, len |-> 1, fill |-> <<49>>]>>}

PipeInit ==
    /\ pc = [r \in Reqs |-> "idle"]
    /\ prql = [r \in Reqs |-> "unset"]
    /\ fs = [d \in DirNames |-> NoDir]
    /\ json_dir = [r \in Reqs |-> 0]
    /\ children = [r \in Reqs |-> FALSE]
    /\ sessions = [s \in SessionIds |-> NoSession]
    /\ conn = [r \in Reqs |-> 0]
    /\ trace = [r \in Reqs |-> <<>>]
    /\ err = [r \in Reqs |-> NoError]
    /\ out = [r \in Reqs |-> NoOutput]

\* The locals of query() go out of scope: json_dir and conn are dropped.
DropLocals(r) ==
    /\ fs' = DropTempDir(fs, json_dir[r])
    /\ json_dir' = [json_dir EXCEPT ![r] = 0]
    /\ sessions' = DropConnection(sessions, conn[r])
    /\ conn' = [conn EXCEPT ![r] = 0]

Logged(r, stage, ok) == trace' = [trace EXCEPT ![r] = Append(@, [stage |-> stage, ok |-> ok])]

\* `stage` returned Ok
Succeeds(r, stage) ==
    /\ pc' = [pc EXCEPT ![r] = StageAfter(stage)]
    /\ Logged(r, stage, TRUE)

\* `stage` returned Err
Fails(r, stage) ==
    /\ Logged(r, stage, FALSE)
    /\ pc' = [pc EXCEPT ![r] = OnError(stage)]
    /\ IF OnError(stage) = "failed"
       THEN /\ err' = [err EXCEPT ![r] = ErrorOf(stage)]
            /\ out' = [out EXCEPT ![r] = ErrorResponse(ErrorOf(stage))]
            /\ DropLocals(r)
       ELSE UNCHANGED <<err, out, fs, json_dir, sessions, conn>>
    /\ UNCHANGED <<prql, children>>

\* index(): the request arrives with or without ?prql=
Index(r) ==
    /\ pc[r] = "idle"
    /\ \E q \in {"absent", "valid", "invalid"} :
        /\ prql' = [prql EXCEPT ![r] = q]
        /\ IF q = "absent"
           THEN /\ pc' = [pc EXCEPT ![r] = "done"]
                /\ out' = [out EXCEPT ![r] = [kind |-> "examples", html |-> <<>>]]
           ELSE /\ pc' = [pc EXCEPT ![r] = "compile"]
                /\ UNCHANGED out
    /\ UNCHANGED <<fs, json_dir, children, sessions, conn, trace, err>>
    /\ UNCHANGED <<ansiVars, escVars, renderVars>>

\* compile(&prql, opts): a pure function of the source text
Compile(r) ==
    /\ pc[r] = "compile"
    /\ \/ /\ prql[r] = "valid"
          /\ Succeeds(r, "compile")
          /\ UNCHANGED <<prql, fs, json_dir, children, sessions, conn, err, out>>
       \/ /\ prql[r] = "invalid"
          /\ Fails(r, "compile")
    /\ UNCHANGED <<ansiVars, escVars, renderVars>>

\* Command::new("squeue").arg("--json").stdout(Stdio::piped()).spawn()?
Spawn(r) ==
    /\ pc[r] = "spawn"
    /\ \/ /\ Succeeds(r, "spawn")
          /\ children' = [children EXCEPT ![r] = TRUE]
          /\ UNCHANGED <<prql, fs, json_dir, sessions, conn, err, out>>
       \/ Fails(r, "spawn")
    /\ UNCHANGED <<ansiVars, escVars, renderVars>>

\* let dir = TempDir::new()?
TempDirNew(r) ==
    /\ pc[r] = "tempdir"
    /\ \/ \E d \in FreshDirs(fs) :
            /\ fs' = [fs EXCEPT ![d] = [exists |-> TRUE, owner |-> r, has_file |-> FALSE,
                                        writer |-> 0, data |-> 0]]
            /\ json_dir' = [json_dir EXCEPT ![r] = d]
            /\ Succeeds(r, "tempdir")
            /\ UNCHANGED <<prql, children, sessions, conn, err, out>>
       \/ Fails(r, "tempdir")
    /\ UNCHANGED <<ansiVars, escVars, renderVars>>

\* fs::File::create(dir.path().join("squeue.json")).await?
FileCreate(r) ==
    /\ pc[r] = "create_file"
    /\ \/ /\ fs[json_dir[r]].exists
          /\ fs' = [fs EXCEPT ![json_dir[r]].has_file = TRUE,
                              ![json_dir[r]].writer = r,
                              ![json_dir[r]].data = 0]
          /\ Succeeds(r, "create_file")
          /\ UNCHANGED <<prql, json_dir, children, sessions, conn, err, out>>
       \/ Fails(r, "create_file")
    /\ UNCHANGED <<ansiVars, escVars, renderVars>>

\* io::copy(&mut io::BufReader::new(stdout), &mut file).await?
Copy(r) ==
    /\ pc[r] = "copy"
    /\ \/ /\ fs' = IF fs[json_dir[r]].exists /\ fs[json_dir[r]].has_file
                   THEN [fs EXCEPT ![json_dir[r]].data = r]
                   ELSE fs
          /\ Succeeds(r, "copy")
          /\ UNCHANGED <<prql, json_dir, children, sessions, conn, err, out>>
       \/ Fails(r, "copy")
    /\ UNCHANGED <<ansiVars, escVars, renderVars>>

\* let status = child.wait().await?
Wait(r) ==
    /\ pc[r] = "wait"
    /\ \/ /\ Succeeds(r, "wait")
          /\ UNCHANGED <<prql, fs, json_dir, children, sessions, conn, err, out>>
       \/ Fails(r, "wait")
    /\ UNCHANGED <<ansiVars, escVars, renderVars>>

\* if !status.success() { bail!("command failed") }  Ok(dir)
ExitStatus(r) ==
    /\ pc[r] = "exit_status"
    /\ \/ /\ Succeeds(r, "exit_status")
          /\ UNCHANGED <<prql, fs, json_dir, children, sessions, conn, err, out>>
       \/ Fails(r, "exit_status")
    /\ UNCHANGED <<ansiVars, escVars, renderVars>>

\* let conn = Connection::open_in_memory()?
OpenInMemory(r) ==
    /\ pc[r] = "open"
    /\ \/ \E s \in {t \in SessionIds : ~sessions[t].open} :
            /\ sessions' = [sessions EXCEPT ![s] = [NoSession EXCEPT !.open = TRUE, !.owner = r]]
            /\ conn' = [conn EXCEPT ![r] = s]
            /\ Succeeds(r, "open")
            /\ UNCHANGED <<prql, fs, json_dir, children, err, out>>
       \/ Fails(r, "open")
    /\ UNCHANGED <<ansiVars, escVars, renderVars>>

\* conn.execute("CREATE TABLE queue AS SELECT * FROM read_json_auto(?)", [json_path])
LoadJson(r) ==
    /\ pc[r] = "load"
    /\ \/ /\ json_dir[r] # 0
          /\ fs[json_dir[r]].exists
          /\ fs[json_dir[r]].has_file
          /\ ~sessions[conn[r]].fs_disabled
          /\ sessions' = [sessions EXCEPT ![conn[r]].loaded = TRUE,
                                          ![conn[r]].queue = fs[json_dir[r]].data,
                                          ![conn[r]].users = @ \cup {r}]
          /\ Succeeds(r, "load")
          /\ UNCHANGED <<prql, fs, json_dir, children, conn, err, out>>
       \/ Fails(r, "load")
    /\ UNCHANGED <<ansiVars, escVars, renderVars>>

\* conn.execute("SET disabled_filesystems='LocalFileSystem,HTTPFileSystem'", [])?
DisableFilesystems(r) ==
    /\ pc[r] = "disable_fs"
    /\ \/ /\ ~sessions[conn[r]].locked
          /\ sessions' = [sessions EXCEPT ![conn[r]].fs_disabled = TRUE,
                                          ![conn[r]].users = @ \cup {r}]
          /\ Succeeds(r, "disable_fs")
          /\ UNCHANGED <<prql, fs, json_dir, children, conn, err, out>>
       \/ Fails(r, "disable_fs")
    /\ UNCHANGED <<ansiVars, escVars, renderVars>>

\* conn.execute("SET lock_configuration=true", [])?
LockConfiguration(r) ==
    /\ pc[r] = "lock_cfg"
    /\ \/ /\ sessions' = [sessions EXCEPT ![conn[r]].locked = TRUE,
                                          ![conn[r]].users = @ \cup {r}]
          /\ Succeeds(r, "lock_cfg")
          /\ UNCHANGED <<prql, fs, json_dir, children, conn, err, out>>
       \/ Fails(r, "lock_cfg")
    /\ UNCHANGED <<ansiVars, escVars, renderVars>>

\* let mut stmt = conn.prepare(&sql)?
Prepare(r) ==
    /\ pc[r] = "prepare"
    /\ \/ /\ sessions' = [sessions EXCEPT ![conn[r]].prepared = TRUE,
                                          ![conn[r]].users = @ \cup {r}]
          /\ Succeeds(r, "prepare")
          /\ UNCHANGED <<prql, fs, json_dir, children, conn, err, out>>
       \/ Fails(r, "prepare")
    /\ UNCHANGED <<ansiVars, escVars, renderVars>>

\* stmt.execute([])?
Execute(r) ==
    /\ pc[r] = "execute"
    /\ \/ /\ sessions' = [sessions EXCEPT ![conn[r]].executed = TRUE,
                                          ![conn[r]].users = @ \cup {r}]
          /\ Succeeds(r, "execute")
          /\ UNCHANGED <<prql, fs, json_dir, children, conn, err, out>>
       \/ Fails(r, "execute")
    /\ UNCHANGED <<ansiVars, escVars, renderVars>>

\* lines 209-237: the table is built from the batches stmt.step() yields,
\* query() returns Ok(table_html) and its locals are dropped
Render(r) ==
    /\ pc[r] = "render"
    /\ \E bs \in PipeStreams :
        out' = [out EXCEPT ![r] = [kind |-> "fragment", html |-> RenderTable(bs)]]
    /\ Succeeds(r, "render")
    /\ DropLocals(r)
    /\ UNCHANGED <<prql, children, err>>
    /\ UNCHANGED <<ansiVars, escVars, renderVars>>

\* The caller goes away while the request is suspended: its future is
\* dropped, and with it the locals of squeue_json().  The child is not killed.
Cancel(r) ==
    /\ pc[r] \in AwaitPoints
    /\ pc' = [pc EXCEPT ![r] = "cancelled"]
    /\ DropLocals(r)
    /\ UNCHANGED <<prql, children, trace, err, out>>
    /\ UNCHANGED <<ansiVars, escVars, renderVars>>

(* ============================ specifications =========================== *)
Init == PipeInit /\ AnsiRest /\ EscRest /\ RenderRest

Next ==
    \E r \in Reqs :
        \/ Index(r)
        \/ Compile(r)
        \/ Spawn(r)
        \/ TempDirNew(r)
        \/ FileCreate(r)
        \/ Copy(r)
        \/ Wait(r)
        \/ ExitStatus(r)
        \/ OpenInMemory(r)
        \/ LoadJson(r)
        \/ DisableFilesystems(r)
        \/ LockConfiguration(r)
        \/ Prepare(r)
        \/ Execute(r)
        \/ Render(r)
        \/ Cancel(r)

Spec == Init /\ [][Next]_vars

InitAnsi == PipeInit /\ AnsiInit /\ EscRest /\ RenderRest

NextAnsi == StripOnce \/ StripTwice

SpecAnsi == InitAnsi /\ [][NextAnsi]_vars

InitEscape == PipeInit /\ AnsiRest /\ EscInit /\ RenderRest

NextEscape == Encode \/ Decode

SpecEscape == InitEscape /\ [][NextEscape]_vars

InitRender == PipeInit /\ AnsiRest /\ EscRest /\ RenderInit

NextRender == RenderBegin \/ StepBatch \/ RenderEnd

SpecRender == InitRender /\ [][NextRender]_vars

(* =============================== claims ================================ *)
Ended(r) == pc[r] \in {"done", "failed", "cancelled"}

\* stage `st` ran in T and returned Ok
OkIn(T, st) == \E i \in 1..Len(T) : T[i].stage = st /\ T[i].ok

\* stage `st` ran and returned Ok somewhere in T[lo..hi]
OkWithin(T, st, lo, hi) == \E j \in lo..hi : T[j].stage = st /\ T[j].ok

\* the stage at which T failed ("" when none did)
FailedAt(T) == IF T # <<>> /\ ~T[Len(T)].ok THEN T[Len(T)].stage ELSE ""

\* C1: whenever the user's statement is prepared or executed, the snapshot
\* load, then SET disabled_filesystems, then SET lock_configuration have each
\* returned Ok before it, in that order; and neither setting is applied
\* before the load has returned Ok.
C1_HardenedBeforeUserStatement ==
    \A r \in Reqs :
        LET T == trace[r] IN
        /\ \A i \in 1..Len(T) :
            /\ T[i].stage \in {"prepare", "execute"} =>
                 \E j, k, l \in 1..(i - 1) :
                    /\ j < k /\ k < l
                    /\ T[j].stage = "load" /\ T[j].ok
                    /\ T[k].stage = "disable_fs" /\ T[k].ok
                    /\ T[l].stage = "lock_cfg" /\ T[l].ok
            /\ T[i].stage \in {"disable_fs", "lock_cfg"} => OkWithin(T, "load", 1, i - 1)
            /\ T[i].stage = "lock_cfg" => OkWithin(T, "disable_fs", 1, i - 1)
        /\ conn[r] # 0 /\ (sessions[conn[r]].prepared \/ sessions[conn[r]].executed) =>
             /\ sessions[conn[r]].loaded
             /\ sessions[conn[r]].fs_disabled
             /\ sessions[conn[r]].locked

C1_Witness ==
    \E r \in Reqs : conn[r] # 0 /\ sessions[conn[r]].executed /\ OkIn(trace[r], "execute")

\* The order of the stages the claims speak of.
StageOrder ==
    <<"compile", "spawn", "tempdir", "create_file", "copy", "wait", "exit_status",
      "open", "load", "disable_fs", "lock_cfg", "prepare", "execute", "render">>

\* C2: the stages of a request run in the order compile, acquire snapshot
\* (spawn .. exit status), open, load, harden, execute, render; only the last
\* stage run can have failed; a failed request returns an error and no table;
\* a compile error leaves the snapshot source unspawned; a failed acquisition
\* leaves the engine unopened; a request without query text runs no stage.
C2_FirstFailureIsLastStage ==
    \A r \in Reqs :
        LET T == trace[r] IN
        /\ Len(T) <= Len(StageOrder)
        /\ \A i \in 1..Len(T) : T[i].stage = StageOrder[i]
        /\ \A i \in 1..(Len(T) - 1) : T[i].ok
        /\ (pc[r] = "failed") <=> (FailedAt(T) # "")
        /\ pc[r] = "failed" => out[r].kind = "error" /\ out[r].html = <<>>
        /\ out[r].kind = "fragment" => Len(T) = Len(StageOrder) /\ T[Len(T)].ok
        /\ children[r] <=> OkIn(T, "spawn")
        /\ FailedAt(T) = "compile" => ~children[r]
        /\ conn[r] # 0 => OkIn(T, "open") /\ OkIn(T, "exit_status")
        /\ prql[r] = "absent" => T = <<>> /\ out[r].kind = "examples"

C2_Witness ==
    \E r1, r2 \in Reqs :
        /\ pc[r1] = "failed" /\ FailedAt(trace[r1]) = "compile"
        /\ pc[r2] = "failed" /\ FailedAt(trace[r2]) = "exit_status"

\* C3: once a request has ended (returned a fragment, returned an error, or
\* was dropped while suspended), no directory it created exists any more.
C3_NoDirectoryLeftBehind ==
    \A r \in Reqs : Ended(r) => \A d \in DirNames : ~(fs[d].exists /\ fs[d].owner = r)

C3_Witness ==
    \E r1, r2 \in Reqs :
        /\ pc[r1] = "cancelled" /\ OkIn(trace[r1], "tempdir")
        /\ pc[r2] = "failed" /\ OkIn(trace[r2], "tempdir")

\* C4: a request's directory and file are its own, its session is its own,
\* only it has run statements on that session, the relation it loaded holds
\* the output of its own child, and no two requests share a directory or a
\* session.
C4_OwnSnapshotOwnSession ==
    \A r \in Reqs :
        /\ json_dir[r] # 0 =>
             /\ fs[json_dir[r]].exists
             /\ fs[json_dir[r]].owner = r
             /\ fs[json_dir[r]].has_file => fs[json_dir[r]].writer = r
             /\ fs[json_dir[r]].data \in {0, r}
        /\ conn[r] # 0 =>
             /\ sessions[conn[r]].open
             /\ sessions[conn[r]].owner = r
             /\ sessions[conn[r]].users \subseteq {r}
             /\ sessions[conn[r]].loaded => sessions[conn[r]].queue = r
        /\ \A q \in Reqs \ {r} :
             /\ json_dir[r] # 0 => json_dir[q] # json_dir[r]
             /\ conn[r] # 0 => conn[q] # conn[r]

C4_Witness ==
    \E r1, r2 \in Reqs :
        /\ r1 # r2
        /\ conn[r1] # 0 /\ sessions[conn[r1]].loaded
        /\ conn[r2] # 0 /\ sessions[conn[r2]].loaded

\* The stage of the specification a statement of the code belongs to.
StageGroup(stage) ==
    CASE stage = "compile" -> "compile"
      [] stage \in {"spawn", "tempdir", "create_file", "copy", "wait", "exit_status"} -> "acquire"
      [] stage = "open" -> "open"
      [] stage = "load" -> "load"
      [] stage \in {"disable_fs", "lock_cfg"} -> "harden"
      [] stage \in {"prepare", "execute"} -> "execute"
      [] OTHER -> "none"

IsCsi(s) ==
    /\ Len(s) >= 3
    /\ s[1] = ESC
    /\ s[2] = LBracket
    /\ s[Len(s)] >= CsiFinalLo /\ s[Len(s)] <= CsiFinalHi
    /\ \A i \in 3..(Len(s) - 1) : s[i] # ESC /\ ~(s[i] >= CsiFinalLo /\ s[i] <= CsiFinalHi)

\* C6: a string without ESC is returned as it is; and wherever a CSI sequence
\* stands in the input, the output is what stripping gives for the text
\* before it followed by what it gives for the text after it.
C6_StripRemovesEveryCsi ==
    ansi_pc \in {"once", "twice"} =>
        /\ ESC \notin Range(ansi_in) => ansi_once = ansi_in
        /\ \A i \in 1..Len(ansi_in) : \A j \in i..Len(ansi_in) :
             IsCsi(SubSeq(ansi_in, i, j)) =>
                ansi_once = strip_ansi(SubSeq(ansi_in, 1, i - 1))
                            \o strip_ansi(SubSeq(ansi_in, j + 1, Len(ansi_in)))

\* C7: stripping what strip_ansi returned returns it unchanged.
C7_StripIdempotent ==
    ansi_pc = "twice" => ansi_twice = ansi_once

C7_Witness ==
    /\ ansi_pc = "twice"
    /\ \E i, j \in 1..Len(ansi_in) : i < j /\ ansi_in[i] = ESC /\ ansi_in[j] = ESC
    /\ ansi_once # <<>>
    /\ ansi_twice = ansi_once

\* s is made of letters, digits, '-', '.', ' ', '~' and '%' followed by two
\* uppercase hexadecimal digits
IsUpperHex(c) == c \in 48..57 \/ c \in 65..70

RECURSIVE IsEscaped(_)
IsEscaped(s) ==
    IF s = <<>> THEN TRUE
    ELSE IF Head(s) = 37
         THEN /\ Len(s) >= 3
              /\ IsUpperHex(s[2])
              /\ IsUpperHex(s[3])
              /\ IsEscaped(SubSeq(s, 4, Len(s)))
         ELSE /\ \/ Head(s) \in 97..122
                 \/ Head(s) \in 65..90
                 \/ Head(s) \in 48..57
                 \/ Head(s) \in {45, 46, 32, 126}
              /\ IsEscaped(Tail(s))

\* C8: percent-decoding escape_query(s) gives s back, and escape_query(s) is
\* made only of the unreserved characters and %XX triples.
C8_EscapeQueryRoundTrips ==
    /\ esc_pc \in {"encoded", "decoded"} => IsEscaped(esc_out)
    /\ esc_pc = "decoded" => esc_dec = esc_in

C8_Witness ==
    /\ esc_pc = "decoded"
    /\ 37 \in Range(esc_in)
    /\ 195 \in Range(esc_in)
    /\ esc_dec = esc_in
    /\ esc_out # esc_in

\* the positions of token t in html
Positions(html, t) == {i \in 1..Len(html) : html[i] = t}

\* the texts of the <th> cells of html, in order
RECURSIVE HeaderTexts(_)
HeaderTexts(html) ==
    IF Len(html) < 2 THEN <<>>
    ELSE IF html[1] = Open("th")
         THEN <<html[2].text>> \o HeaderTexts(Tail(html))
         ELSE HeaderTexts(Tail(html))

\* C9: while and after the batches are rendered, the table holds one <thead>
\* once a batch was stepped and none before; it stands right after the
\* opening tag, before every row; its cells are the escaped column names of
\* the first batch, whatever the later batches are named.
C9_HeaderOnceFromFirstBatch ==
    render_pc \in {"loop", "done"} =>
        LET stepped == next_batch - 1 IN
        /\ Cardinality(Positions(table_html, Open("thead"))) = (IF stepped >= 1 THEN 1 ELSE 0)
        /\ Cardinality(Positions(table_html, Close("thead"))) = (IF stepped >= 1 THEN 1 ELSE 0)
        /\ header_printed <=> (stepped >= 1)
        /\ stepped >= 1 =>
             /\ table_html[2] = Open("thead")
             /\ \A i \in Positions(table_html, Open("td")) :
                  \A j \in Positions(table_html, Close("thead")) : j < i
             /\ HeaderTexts(table_html) =
                  [c \in 1..Len(batches[1].names) |-> escape_html(batches[1].names[c])]
        /\ stepped = 0 => HeaderTexts(table_html) = <<>>
        /\ render_pc = "done" => stepped = Len(batches)

C9_Witness ==
    /\ render_pc = "done"
    /\ Len(batches) = 2
    /\ batches[1].len = 0
    /\ batches[2].len = 1
    /\ batches[1].names # batches[2].names
    /\ Cardinality(Positions(table_html, Open("thead"))) = 1

\* every closing tag of html closes the tag opened last and still open, and
\* nothing stays open
RECURSIVE Nested(_, _)
Nested(html, stack) ==
    IF html = <<>> THEN stack = <<>>
    ELSE CASE Head(html).kind = "open" -> Nested(Tail(html), <<Head(html).tag>> \o stack)
           [] Head(html).kind = "close" ->
                /\ stack # <<>>
                /\ Head(stack) = Head(html).tag
                /\ Nested(Tail(html), Tail(stack))
           [] OTHER -> Nested(Tail(html), stack)

\* C10: the table returned for any result stream, the empty one included,
\* starts with <table id="results">, ends with </table> and is well nested.
C10_TableShellWellNested ==
    render_pc = "done" =>
        /\ Head(table_html) = Open("table")
        /\ table_html[Len(table_html)] = Close("table")
        /\ Nested(table_html, <<>>)

====
